---- MODULE Spec2Model ----
(***************************************************************************)
(* State-machine model of the reel-quick video pipeline:                   *)
(*   backend/workers/video_maker.py     process_video and its helpers      *)
(*   backend/objects/video_automation.py VideoAutomation                   *)
(* The MongoDB collections, the job queue and the files on disk are the    *)
(* state; every database call, every segment render and every external     *)
(* tool run is one step.                                                   *)
(***************************************************************************)
EXTENDS Integers, Sequences, FiniteSets, TLC

VARIABLES videos, video_parts, queue, tmp_dir, seg_files, manifest, outputs,
          json_files, pv, pl, req, hms, dreq, preq

vars == <<videos, video_parts, queue, tmp_dir, seg_files, manifest, outputs,
          json_files, pv, pl, req, hms, dreq, preq>>

(* ------------------------------ bounds -------------------------------- *)

\* Most parts a video record holds.
MaxParts == 2

\* Most jobs delivered for one scenario.
MaxJobs == 2

(* --------------------------- optional values --------------------------- *)

\* Python's None and a present value, as sequences of length 0 and 1.
None == <<>>

Some(x) == <<x>>

IsSome(o) == Len(o) = 1

Get(o) == o[1]

(* ------------------------------ strings -------------------------------- *)
\* A string the code takes apart is a sequence of one-character strings.

Digit == <<"0", "1", "2", "3", "4", "5", "6", "7", "8", "9">>

IsDigit(c) == \E d \in 1..10 : Digit[d] = c

DigitValue(c) == (CHOOSE d \in 1..10 : Digit[d] = c) - 1

\* str.split(":"): the fields between the colons, empty ones kept.
RECURSIVE SplitColon(_)
SplitColon(s) ==
    IF \A i \in 1..Len(s) : s[i] # ":"
    THEN <<s>>
    ELSE LET k == CHOOSE i \in 1..Len(s) :
                      s[i] = ":" /\ \A j \in 1..(i - 1) : s[j] # ":"
         IN <<SubSeq(s, 1, k - 1)>> \o SplitColon(SubSeq(s, k + 1, Len(s)))

\* str.strip() as int() applies it: blanks off both ends.
RECURSIVE StripBlanks(_)
StripBlanks(s) ==
    IF s = <<>> THEN s
    ELSE IF Head(s) = " " THEN StripBlanks(Tail(s))
    ELSE IF s[Len(s)] = " " THEN StripBlanks(SubSeq(s, 1, Len(s) - 1))
    ELSE s

\* The digits of an integer literal once blanks and a sign are removed.
Unsigned(s) ==
    LET t == StripBlanks(s)
    IN IF t # <<>> /\ Head(t) \in {"+", "-"} THEN Tail(t) ELSE t

\* int(s) succeeds: optional blanks, an optional sign, then digits only.
IsIntLiteral(s) ==
    /\ Unsigned(s) # <<>>
    /\ \A i \in 1..Len(Unsigned(s)) : IsDigit(Unsigned(s)[i])

RECURSIVE DigitsValue(_)
DigitsValue(s) ==
    IF s = <<>> THEN 0
    ELSE 10 * DigitsValue(SubSeq(s, 1, Len(s) - 1)) + DigitValue(s[Len(s)])

\* int(s) for a string IsIntLiteral accepts.
IntValue(s) ==
    LET t == StripBlanks(s)
    IN IF Head(t) = "-" THEN 0 - DigitsValue(Unsigned(s))
       ELSE DigitsValue(Unsigned(s))

\* parse_hms_raises without the upper limits of minutes and seconds.
parse_hms_raises_no_range(value) ==
    LET parts == SplitColon(value)
    IN \/ Len(parts) # 3
       \/ \E i \in 1..3 : ~IsIntLiteral(parts[i])
       \/ \E i \in 1..3 : IntValue(parts[i]) < 0

\* _parse_hms raises ValueError (a bad split, int() failing, a range check).
parse_hms_raises(value) ==
    LET parts == SplitColon(value)
    IN \/ Len(parts) # 3
       \/ \E i \in 1..3 : ~IsIntLiteral(parts[i])
       \/ LET h == IntValue(parts[1])
              m == IntValue(parts[2])
              s == IntValue(parts[3])
          IN h < 0 \/ m < 0 \/ s < 0 \/ m > 59 \/ s > 59

\* _parse_hms's result in whole seconds (float(h*3600 + m*60 + s) is exact).
parse_hms(value) ==
    LET parts == SplitColon(value)
    IN IntValue(parts[1]) * 3600 + IntValue(parts[2]) * 60 + IntValue(parts[3])

\* str(n) for n >= 0.
RECURSIVE DecimalDigits(_)
DecimalDigits(n) ==
    IF n < 10 THEN <<Digit[n + 1]>>
    ELSE DecimalDigits(n \div 10) \o <<Digit[(n % 10) + 1]>>

\* Pad2 without the padding.
Pad2_unpadded(n) == DecimalDigits(n)

\* format(n, "02d"): at least two digits, zero-padded on the left.
Pad2(n) == IF n < 10 THEN <<"0">> \o DecimalDigits(n) ELSE DecimalDigits(n)

\* format_hms with the hours wrapped at 24.
format_hms_wrapped(tenths) ==
    LET total   == tenths \div 10
        hours   == (total \div 3600) % 24
        minutes == (total % 3600) \div 60
        seconds == total % 60
    IN Pad2(hours) \o <<":">> \o Pad2(minutes) \o <<":">> \o Pad2(seconds)

\* _format_hms of a duration given in tenths of a second: int() drops the
\* fraction, hours are not wrapped.
format_hms(tenths) ==
    LET total   == tenths \div 10
        hours   == total \div 3600
        minutes == (total % 3600) \div 60
        seconds == total % 60
    IN Pad2(hours) \o <<":">> \o Pad2(minutes) \o <<":">> \o Pad2(seconds)

Alnum ==
    {"A", "B", "C", "D", "E", "F", "G", "H", "I", "J", "K", "L", "M", "N",
     "O", "P", "Q", "R", "S", "T", "U", "V", "W", "X", "Y", "Z",
     "a", "b", "c", "d", "e", "f", "g", "h", "i", "j", "k", "l", "m", "n",
     "o", "p", "q", "r", "s", "t", "u", "v", "w", "x", "y", "z",
     "0", "1", "2", "3", "4", "5", "6", "7", "8", "9"}

\* re.sub(r"[^A-Za-z0-9]+", "_", title): every maximal run of other
\* characters becomes one "_".
RECURSIVE SubNonAlnum(_)
SubNonAlnum(t) ==
    IF t = <<>> THEN <<>>
    ELSE IF Head(t) \in Alnum THEN <<Head(t)>> \o SubNonAlnum(Tail(t))
    ELSE IF Len(t) > 1 /\ t[2] \notin Alnum THEN SubNonAlnum(Tail(t))
    ELSE <<"_">> \o SubNonAlnum(Tail(t))

\* str.strip("_").
RECURSIVE StripUnderscore(_)
StripUnderscore(t) ==
    IF t = <<>> THEN t
    ELSE IF Head(t) = "_" THEN StripUnderscore(Tail(t))
    ELSE IF t[Len(t)] = "_" THEN StripUnderscore(SubSeq(t, 1, Len(t) - 1))
    ELSE t

safe_filename(title) ==
    LET safe == StripUnderscore(SubNonAlnum(title))
    IN IF safe = <<>> THEN <<"v", "i", "d", "e", "o">> ELSE safe

(* ------------------------- records and parts --------------------------- *)

VideoIds == {"v1", "v2"}

Workers == {1, 2}

\* Uploaded source files: the frame rate moviepy reports (0: none), or the
\* file cannot be opened at all when it is not listed.
SourceFps == [x \in {"a.mp4", "b.mp4"} |-> IF x = "a.mp4" THEN 24 ELSE 0]

\* What ffprobe reports as each source file's duration, in tenths of a
\* second (9.9 s and 5.0 s).
SourceDuration == [x \in {"a.mp4", "b.mp4"} |-> IF x = "a.mp4" THEN 99 ELSE 50]

T000 == <<"0", "0", ":", "0", "0", ":", "0", "0">>

T005 == <<"0", "0", ":", "0", "0", ":", "0", "5">>

T009 == <<"0", "0", ":", "0", "0", ":", "0", "9">>

TBad == <<"n", "o", "t", ":", "a", ":", "t", "i", "m", "e">>

PartKinds == {"goodA", "goodB", "badPath", "badTime", "noLocation"}

\* A stored video part (the fields process_video reads).
PartOfKind(kind, number) ==
    [file_location |-> CASE kind = "goodB"      -> "b.mp4"
                         [] kind = "badPath"    -> "gone.mp4"
                         [] kind = "noLocation" -> ""
                         [] OTHER               -> "a.mp4",
     start_time    |-> IF kind = "badTime" THEN TBad ELSE T000,
     end_time      |-> T005,
     part_number   |-> number]

\* How the stored documents are numbered: from 1 upward in insertion order,
\* from 1 in reverse insertion order, or from 0 upward.
Numberings == {"asc1", "desc1", "asc0"}

NumberAt(numbering, i, n) ==
    CASE numbering = "asc1"  -> i
      [] numbering = "desc1" -> n + 1 - i
      [] OTHER               -> i - 1

StoredParts ==
    UNION { { [i \in 1..n |-> PartOfKind(kinds[i], NumberAt(nb, i, n))] :
                kinds \in [1..n -> PartKinds], nb \in Numberings } :
            n \in 0..MaxParts }

TitleV1 == <<"A", " ", "B">>

TitleV2 == <<"A", "-", "B">>

\* create_video's document (the fields the pipeline's callers use).
NewVideo(title) ==
    [video_title          |-> title,
     status               |-> "created",
     output_file_location |-> None,
     job_id               |-> None,
     error_reason         |-> None,
     video_size           |-> None]

\* enqueue_video's update of the record once the job is in the queue.
Enqueued(rec, job_id) ==
    [rec EXCEPT !.status = "queued", !.job_id = Some(job_id),
                !.error_reason = None]

\* The orders in which jobs for the two records are delivered.
JobOrders ==
    UNION { [1..n -> VideoIds] : n \in 1..MaxJobs }

Job(order, i) == [job_id |-> i, video_id |-> order[i]]

(* ----------------------- time strings to convert ----------------------- *)

\* n < 100 written with two digits.
TwoDigits(n) == <<Digit[(n \div 10) + 1], Digit[(n % 10) + 1]>>

\* "HH:MM:SS" written out for hours below 100.
HmsText(h, m, sec) ==
    TwoDigits(h) \o <<":">> \o TwoDigits(m) \o <<":">> \o TwoDigits(sec)

HmsHours == {0, 1, 9, 10, 23, 24, 25, 99}

HmsMinutes == {0, 1, 9, 10, 59}

\* Every zero-padded time of the hours, minutes and seconds above.
PaddedTexts ==
    {HmsText(h, m, sec) : h \in HmsHours, m \in HmsMinutes, sec \in HmsMinutes}

\* Other strings a caller can send: out of range, with the wrong number of
\* fields, with fields that are no integers, unpadded, over-padded, signed,
\* with a blank, and with three-digit hours.
OddTexts ==
    {TBad,
     <<"2", "5", ":", "9", "9", ":", "0", "0">>,
     <<"1", ":", "2", ":", "3">>,
     <<>>,
     <<"0", "0", ":", "0", "0">>,
     <<"0", "0", ":", "0", "0", ":", "0", "0", ":", "0", "0">>,
     <<":", ":">>,
     <<"0", "0", ":", "6", "0", ":", "0", "0">>,
     <<"0", "0", ":", "0", "0", ":", "6", "0">>,
     <<"-", "1", ":", "0", "0", ":", "0", "0">>,
     <<"0", "0", ":", "-", "1", ":", "0", "0">>,
     <<"1", ".", "5", ":", "0", "0", ":", "0", "0">>,
     <<"a", "a", ":", "0", "0", ":", "0", "0">>,
     <<"1", "0", "0", ":", "0", "0", ":", "0", "0">>,
     <<"0", "0", "7", ":", "0", "0", ":", "0", "0">>,
     <<" ", "1", ":", "0", "2", ":", "0", "3">>,
     <<"+", "1", ":", "0", "2", ":", "0", "3">>}

HmsTexts == PaddedTexts \cup OddTexts

\* Durations in tenths of a second, as ffprobe reports them: around each
\* field's carry, with and without a fraction, past 24 and past 100 hours.
HmsTenths ==
    {0, 5, 9, 10, 19, 599, 600, 605, 35999, 36000, 36005, 863999, 864000,
     900000, 900005, 3599999, 3600000, 3600009}

(* ---------------------------- database calls --------------------------- *)

\* The document update_one matches (a placeholder when there is none, which
\* UpdateOne never stores).
Matched(v) == IF IsSome(videos[v]) THEN Get(videos[v]) ELSE NewVideo(<<>>)

\* UpdateOne as an upsert: the document is created when none matches.
UpdateOne_upsert(v, updated) == [videos EXCEPT ![v] = Some(updated)]

\* update_one({"video_id": v}, {"$set": ...}), updated being the matched
\* document after the $set: no document, no change.
UpdateOne(v, updated) ==
    IF IsSome(videos[v]) THEN [videos EXCEPT ![v] = Some(updated)]
    ELSE videos

Reason(msg, detail) == [msg |-> msg, detail |-> detail]

\* SetFailed with the reason left out of the update.
SetFailed_no_reason(rec, reason) ==
    [rec EXCEPT !.status = "failed"]

SetFailed(rec, reason) ==
    [rec EXCEPT !.status = "failed", !.error_reason = Some(reason)]

\* SetProcessing with error_reason left out of the update.
SetProcessing_keeps_reason(rec, output_path) ==
    [rec EXCEPT !.status = "processing",
                !.output_file_location = Some(output_path)]

SetProcessing(rec, output_path) ==
    [rec EXCEPT !.status = "processing",
                !.output_file_location = Some(output_path),
                !.error_reason = None]

SetCompleted(rec, output_path, output_size) ==
    [rec EXCEPT !.status = "completed",
                !.output_file_location = Some(output_path),
                !.video_size = Some(output_size),
                !.error_reason = None]

\* SortByPartNumber without the sort: the parts as they are stored.
SortByPartNumber_unsorted(ps) == ps

\* find(...).sort("part_number", 1): ascending, stored order kept among equals.
RECURSIVE SortByPartNumber(_)
SortByPartNumber(ps) ==
    IF ps = <<>> THEN <<>>
    ELSE LET k == CHOOSE i \in 1..Len(ps) :
                      /\ \A j \in 1..Len(ps) :
                             ps[i].part_number <= ps[j].part_number
                      /\ \A j \in 1..(i - 1) :
                             ps[j].part_number # ps[i].part_number
         IN <<ps[k]>> \o
            SortByPartNumber(SubSeq(ps, 1, k - 1) \o SubSeq(ps, k + 1, Len(ps)))

(* --------------------------- worker state ------------------------------ *)

\* process_video's locals for one worker, with what the run has done so far
\* (wrote: the statuses it has written; invocations: pipeline calls).
PvIdle ==
    [pc          |-> "idle",
     job_id      |-> 0,
     video_id    |-> "",
     title       |-> None,
     parts       |-> <<>>,
     output_name |-> None,
     payload     |-> None,
     created     |-> "unset",
     exists_ok   |-> FALSE,
     probed      |-> None,
     exc         |-> None,
     ret         |-> "unset",
     wrote       |-> <<>>,
     invocations |-> 0]

\* process_and_create_output's locals for one worker, with the external
\* calls it has made (each concat run's arguments and exit code; tools: what
\* each encoder and ffmpeg run did, in call order), the files it left
\* (after) and, when it is the object's second call on the same data, what
\* the first call did and left (prev); open_clips: the inputs whose clip was
\* opened and has not been closed; raised: where an exception was raised
\* inside the try block, if one was.
PlIdle ==
    [pc               |-> "idle",
     job_id           |-> 0,
     data             |-> None,
     index            |-> 0,
     temp_files       |-> <<>>,
     concat_list_path |-> FALSE,
     target_fps       |-> 0,
     attempts         |-> <<>>,
     failed           |-> None,
     stage            |-> "none",
     manifest_writes  |-> 0,
     fast             |-> <<>>,
     fallback         |-> <<>>,
     result           |-> "unset",
     tools            |-> <<>>,
     after            |-> None,
     prev             |-> None,
     target_size      |-> None,
     open_clips       |-> {},
     raised           |-> None]

\* enqueue_video's locals for the request under way, with the response of
\* the last request and the number of jobs the queue has accepted.
ReqIdle ==
    [pc       |-> "idle",
     video_id |-> "",
     job_id   |-> 0,
     response |-> 0,
     enqueued |-> 0]

\* delete_video's locals for the request under way (doc: the record it took
\* out of the collection), with the response of the last request.
DelIdle ==
    [pc       |-> "idle",
     video_id |-> "",
     doc      |-> None,
     response |-> 0]

\* The clients of the video-part endpoints, whose requests run side by side.
Clients == {1, 2}

\* A PATCH payload: each field is set or left out (exclude_unset).
PartUpdate(file_location, start_time, end_time) ==
    [file_location |-> file_location,
     start_time    |-> start_time,
     end_time      |-> end_time]

\* update_video_part's locals for each client's request under way (the part
\* it addresses and its update), with the response of the client's last
\* request to a video-part endpoint.
PreqIdle ==
    [c \in Clients |->
        [pc       |-> "idle",
         video_id |-> "",
         index    |-> 0,
         update   |-> PartUpdate(None, None, None),
         response |-> 0]]

\* One conversion between a time string and a duration: the text or the
\* duration (in tenths of a second) it starts from, and what _parse_hms and
\* _format_hms made of it.
HmsIdle ==
    [pc        |-> "idle",
     kind      |-> "none",
     text      |-> <<>>,
     tenths    |-> 0,
     raised    |-> FALSE,
     parsed    |-> None,
     formatted |-> None]

MP4 == <<".", "m", "p", "4">>

\* required_fields and "not part.get(field)": an empty string and the number 0
\* count as missing.
MissingFields(part) ==
    SelectSeq(<<"file_location", "start_time", "end_time", "part_number">>,
              LAMBDA f :
                  CASE f = "file_location" -> part.file_location = ""
                    [] f = "start_time"    -> part.start_time = <<>>
                    [] f = "end_time"      -> part.end_time = <<>>
                    [] OTHER               -> part.part_number = 0)

\* missing_fields: one entry per part that lacks something, by 0-based index.
missing_fields(parts) ==
    LET entry(i) == [part_index |-> i - 1, missing |-> MissingFields(parts[i])]
        RECURSIVE collect(_)
        collect(i) ==
            IF i > Len(parts) THEN <<>>
            ELSE IF MissingFields(parts[i]) # <<>>
                 THEN <<entry(i)>> \o collect(i + 1)
                 ELSE collect(i + 1)
    IN collect(1)

\* _build_processing_payload raises: some start or end time does not parse.
build_processing_payload_raises(parts) ==
    \E i \in 1..Len(parts) :
        parse_hms_raises(parts[i].start_time) \/ parse_hms_raises(parts[i].end_time)

\* _build_processing_payload: inputs by position, durations keyed by the
\* 0-based position.
build_processing_payload(parts, output_name) ==
    [inputs           |-> [i \in 1..Len(parts) |-> parts[i].file_location],
     durations        |-> [i \in 0..(Len(parts) - 1) |->
                              [start |-> parse_hms(parts[i + 1].start_time),
                               end   |-> parse_hms(parts[i + 1].end_time)]],
     output_file_name |-> output_name]

(* ------------------------------- Init ---------------------------------- *)

\* The output paths of the two records. The pipeline writes into
\* OUTPUT_FOLDER and process_video looks into OUTPUT_FILES_LOCATION; the model
\* takes them to be the same folder, so a path is the file's name.
OutputNames == {safe_filename(TitleV1) \o MP4, safe_filename(TitleV2) \o MP4}

SegmentIndexes == 0..(MaxParts - 1)

\* Two video records exist; each one a job of the order names is queued
\* (its record carries the last job enqueued for it). The first record's parts
\* are drawn from partsets, the second holds one good part. The output
\* folder is empty.
InitStore(orders, partsets) ==
    /\ \E order \in orders :
        /\ queue = [i \in 1..Len(order) |-> Job(order, i)]
        /\ videos = [v \in VideoIds |->
               LET rec  == NewVideo(IF v = "v1" THEN TitleV1 ELSE TitleV2)
                   jobs == {i \in 1..Len(order) : order[i] = v}
               IN IF jobs = {} THEN Some(rec)
                  ELSE Some(Enqueued(rec, CHOOSE i \in jobs : \A j \in jobs : j <= i))]
    /\ \E ps \in partsets :
           video_parts = [v \in VideoIds |->
                             IF v = "v1" THEN ps ELSE <<PartOfKind("goodA", 1)>>]
    /\ tmp_dir = FALSE
    /\ seg_files = [i \in SegmentIndexes |-> None]
    /\ manifest = None
    /\ outputs = [n \in OutputNames |-> None]
    /\ json_files = {}
    /\ pv = [w \in Workers |-> PvIdle]
    /\ pl = [w \in Workers |-> PlIdle]

\* No API request is under way and no time string is being converted.
InitWith(orders) ==
    /\ InitStore(orders, StoredParts)
    /\ req = ReqIdle
    /\ dreq = DelIdle
    /\ preq = PreqIdle
    /\ hms = HmsIdle

Init == InitWith(JobOrders)

(* --------------------------- process_video ----------------------------- *)

WriteDoc(status, reason, size) ==
    [status |-> status, error_reason |-> reason, video_size |-> size]

\* video_not_found with the run reported as done.
video_not_found_returns_true(run) == [run EXCEPT !.pc = "returned", !.ret = "True"]

\* "Video not found": the run ends at once with False.
video_not_found(run) == [run EXCEPT !.pc = "returned", !.ret = "False"]

\* The worker takes the next job and looks its record up; no record: return False.
pv_find_video(w) ==
    /\ pv[w].pc \in {"idle", "returned", "raised"}
    /\ queue # <<>>
    /\ LET job == Head(queue)
           run == [PvIdle EXCEPT !.job_id = job.job_id, !.video_id = job.video_id]
       IN pv' = [pv EXCEPT ![w] =
                    IF videos[job.video_id] = None
                    THEN video_not_found(run)
                    ELSE [run EXCEPT !.pc = "find_parts",
                                     !.title = Some(Get(videos[job.video_id]).video_title)]]
    /\ queue' = Tail(queue)
    /\ pl' = [pl EXCEPT ![w] = PlIdle]
    /\ UNCHANGED <<dreq, preq, req, hms, videos, video_parts, tmp_dir, seg_files, manifest, outputs, json_files>>

\* parts = list(db.video_parts.find(...).sort("part_number", 1))
pv_find_parts(w) ==
    /\ pv[w].pc = "find_parts"
    /\ pv' = [pv EXCEPT ![w].parts = SortByPartNumber(video_parts[pv[w].video_id]),
                        ![w].pc = "validate"]
    /\ UNCHANGED <<dreq, preq, req, hms, videos, video_parts, queue, tmp_dir, seg_files, manifest, outputs,
                   json_files, pl>>

\* validation_failure without the check of the required fields.
validation_failure_parts_only(parts) ==
    IF parts = <<>> THEN Some(Reason("No video parts found for video", <<>>))
    ELSE None

\* The reason the validation of the parts fails with, if it does.
validation_failure(parts) ==
    IF parts = <<>> THEN Some(Reason("No video parts found for video", <<>>))
    ELSE IF missing_fields(parts) # <<>>
         THEN Some(Reason("Invalid video parts", missing_fields(parts)))
         ELSE None

\* No parts, or a part lacking a required field: the record is set to failed
\* and the run returns False. Otherwise the output name is derived.
pv_validate(w) ==
    /\ pv[w].pc = "validate"
    /\ LET bad == validation_failure(pv[w].parts)
       IN IF IsSome(bad)
          THEN /\ videos' = UpdateOne(pv[w].video_id,
                                      SetFailed(Matched(pv[w].video_id), Get(bad)))
               /\ pv' = [pv EXCEPT ![w].pc = "returned", ![w].ret = "False",
                                   ![w].wrote = Append(@, WriteDoc("failed", bad, None))]
          ELSE /\ videos' = videos
               /\ pv' = [pv EXCEPT ![w].pc = "mark_processing",
                                   ![w].output_name =
                                       Some(safe_filename(Get(pv[w].title)) \o MP4)]
    /\ UNCHANGED <<dreq, preq, req, hms, video_parts, queue, tmp_dir, seg_files, manifest, outputs,
                   json_files, pl>>

\* status := processing, with the output path, just before the payload is built.
pv_mark_processing(w) ==
    /\ pv[w].pc = "mark_processing"
    /\ videos' = UpdateOne(pv[w].video_id,
                           SetProcessing(Matched(pv[w].video_id), Get(pv[w].output_name)))
    /\ pv' = [pv EXCEPT ![w].pc = "build_payload",
                        ![w].wrote = Append(@, WriteDoc("processing", None, None))]
    /\ UNCHANGED <<dreq, preq, req, hms, video_parts, queue, tmp_dir, seg_files, manifest, outputs,
                   json_files, pl>>

\* payload = _build_processing_payload(parts, output_file_name), called before
\* the try block: a ValueError from _parse_hms leaves process_video.
pv_build_payload(w) ==
    /\ pv[w].pc = "build_payload"
    /\ pv' = [pv EXCEPT ![w] =
                 IF build_processing_payload_raises(pv[w].parts)
                 THEN [@ EXCEPT !.pc = "raised", !.ret = "raised"]
                 ELSE [@ EXCEPT !.pc = "write_config",
                                !.payload = Some(build_processing_payload(
                                                     pv[w].parts, Get(pv[w].output_name)))]]
    /\ UNCHANGED <<dreq, preq, req, hms, videos, video_parts, queue, tmp_dir, seg_files, manifest, outputs,
                   json_files, pl>>

\* The payload goes to a temporary JSON file, read_video_config loads it and
\* process_and_create_output is called.
pv_write_config(w) ==
    /\ pv[w].pc = "write_config"
    /\ json_files' = json_files \cup {pv[w].job_id}
    /\ pl' = [pl EXCEPT ![w] = [PlIdle EXCEPT !.pc = "start",
                                              !.job_id = pv[w].job_id,
                                              !.data = pv[w].payload]]
    /\ pv' = [pv EXCEPT ![w].pc = "pipeline", ![w].invocations = @ + 1]
    /\ UNCHANGED <<dreq, preq, req, hms, videos, video_parts, queue, tmp_dir, seg_files, manifest, outputs>>

(* --------------------- process_and_create_output ----------------------- *)

DEFAULT_FPS == 30

\* Raised without the except clause: the finally clause runs and the
\* exception goes on to the caller.
Raised_escapes(p) == [p EXCEPT !.pc = "finally", !.result = "raised"]

\* Raised with a retry: the exception sends the loop back to the same input.
Raised_retry(p) == [p EXCEPT !.pc = "loop"]

\* "Exception in process_and_create_output": the except clause prints, the
\* finally clause runs next and the method ends without a return value.
Raised(p) == [p EXCEPT !.pc = "finally", !.result = "None"]

\* A segment file as write_videofile leaves it.
Segment(job_id, index, source, fps, size, complete) ==
    [owner |-> job_id, part |-> index, source |-> source, fps |-> fps,
     size |-> size, complete |-> complete]

\* pl_start with a write to the job's record.
pl_start_marks_record(w) ==
    /\ pl[w].pc = "start"
    /\ IF pl[w].data = None
       THEN /\ pl' = [pl EXCEPT ![w].pc = "returned", ![w].result = "False"]
            /\ tmp_dir' = tmp_dir
       ELSE /\ pl' = [pl EXCEPT ![w].pc = "loop"]
            /\ tmp_dir' = TRUE
    /\ videos' = [videos EXCEPT ![pv[w].video_id] =
                      Some([Get(@) EXCEPT !.status = "rendering"])]
    /\ UNCHANGED <<dreq, preq, req, hms, video_parts, queue, seg_files, manifest, outputs,
                   json_files, pv>>

\* Empty processing data: return False at once. Otherwise the shared
\* temporary folder OUTPUT_FOLDER/_tmp_segments is created if absent.
pl_start(w) ==
    /\ pl[w].pc = "start"
    /\ IF pl[w].data = None
       THEN /\ pl' = [pl EXCEPT ![w].pc = "returned", ![w].result = "False"]
            /\ tmp_dir' = tmp_dir
       ELSE /\ pl' = [pl EXCEPT ![w].pc = "loop"]
            /\ tmp_dir' = TRUE
    /\ UNCHANGED <<dreq, preq, req, hms, videos, video_parts, queue, seg_files, manifest, outputs,
                   json_files, pv>>

\* fps_after_open without the test of target_fps: each clip sets the rate.
fps_after_open_each_clip(target_fps, source) ==
    IF SourceFps[source] # 0 THEN SourceFps[source] ELSE DEFAULT_FPS

\* target_fps = clip.fps or 30, set by the first clip opened.
fps_after_open(target_fps, source) ==
    IF target_fps # 0 THEN target_fps
    ELSE IF SourceFps[source] # 0 THEN SourceFps[source] ELSE DEFAULT_FPS

\* The frame size of each uploaded source file, <<width, height>>.
SourceSize ==
    [x \in {"a.mp4", "b.mp4"} |->
        IF x = "a.mp4" THEN <<1920, 1080>> ELSE <<640, 480>>]

TARGET_WIDTH == 1440

\* clip.resized(width=w): the height follows in proportion.
resized_to_width(size, width) == <<width, (size[2] * width) \div size[1]>>

\* target_size = clip.size, set by the first clip scaled.
size_after_open(target_size, scaled) ==
    IF target_size = None THEN Some(scaled) ELSE target_size

\* encoded_size without the resize to the target.
encoded_size_as_scaled(target_size, scaled) == scaled

\* The size a clip is encoded at: its scaled size for the first clip, and for
\* a later one the target size, to which it is resized when it differs.
encoded_size(target_size, scaled) ==
    IF target_size = None \/ scaled = Get(target_size) THEN scaled
    ELSE Get(target_size)

\* What the work on an opened clip can do: finish the file; fail before
\* anything is written (in subclipped, the effects, resized or the encoder);
\* or fail part-way and leave what the encoder wrote.
EncodeOutcomes == {"ok", "error", "partial"}

\* One pass of the loop over the inputs: open the clip, trim and resize it,
\* encode it to segment_<index>.mp4, close it, then register the file in
\* temp_files. Any exception leaves the loop for the except clause, the clip
\* that was open staying open: neither the except nor the finally clause
\* closes it.
pl_render(w) ==
    /\ pl[w].pc = "loop"
    /\ pl[w].index < Len(Get(pl[w].data).inputs)
    /\ LET p      == pl[w]
           index  == p.index
           source == Get(p.data).inputs[index + 1]
           tried  == [p EXCEPT !.attempts = Append(@, index)]
       IN IF index \notin DOMAIN Get(p.data).durations
          THEN /\ pl' = [pl EXCEPT ![w].index = index + 1]
               /\ seg_files' = seg_files
          ELSE IF source \notin DOMAIN SourceFps
          THEN /\ pl' = [pl EXCEPT ![w] = Raised([tried EXCEPT !.failed = Some(index),
                                                               !.raised = Some("open")])]
               /\ seg_files' = seg_files
          ELSE LET fps    == fps_after_open(p.target_fps, source)
                   scaled == resized_to_width(SourceSize[source], TARGET_WIDTH)
                   size   == encoded_size(p.target_size, scaled)
               IN \E outcome \in EncodeOutcomes :
                      LET opened == [tried EXCEPT !.target_fps = fps,
                                                  !.target_size =
                                                      size_after_open(@, scaled),
                                                  !.tools = Append(@, outcome)]
                      IN
                      IF outcome = "ok" /\ tmp_dir
                      THEN /\ seg_files' = [seg_files EXCEPT ![index] =
                                  Some(Segment(p.job_id, index, source, fps, size, TRUE))]
                           /\ pl' = [pl EXCEPT ![w] =
                                  [opened EXCEPT !.temp_files = Append(@, index),
                                                 !.index = index + 1]]
                      ELSE /\ seg_files' =
                                  IF outcome = "partial" /\ tmp_dir
                                  THEN [seg_files EXCEPT ![index] =
                                           Some(Segment(p.job_id, index, source, fps, size,
                                                        FALSE))]
                                  ELSE seg_files
                           /\ pl' = [pl EXCEPT ![w] =
                                        Raised([opened EXCEPT
                                                   !.failed = Some(index),
                                                   !.open_clips = @ \cup {index},
                                                   !.raised = Some("encode")])]
    /\ UNCHANGED <<dreq, preq, req, hms, videos, video_parts, queue, tmp_dir, manifest, outputs, json_files, pv>>

\* concat_list_files listing whatever segment file is in the folder.
concat_list_files_whole_folder(temp_files) ==
    LET present == {i \in SegmentIndexes : IsSome(seg_files[i])}
    IN [k \in 1..Cardinality(present) |->
           CHOOSE i \in present : Cardinality({j \in present : j < i}) = k - 1]

\* The lines of the concat list: one per path in temp_files, in that order.
concat_list_files(temp_files) == temp_files

\* After the loop: no segment, return False; otherwise write the concat list.
pl_write_manifest(w) ==
    /\ pl[w].pc = "loop"
    /\ pl[w].index = Len(Get(pl[w].data).inputs)
    /\ IF pl[w].temp_files = <<>>
       THEN /\ pl' = [pl EXCEPT ![w].pc = "finally", ![w].result = "False"]
            /\ manifest' = manifest
       ELSE IF ~tmp_dir
       THEN /\ pl' = [pl EXCEPT ![w] = Raised([@ EXCEPT !.concat_list_path = TRUE,
                                                           !.raised = Some("manifest")])]
            /\ manifest' = manifest
       ELSE /\ pl' = [pl EXCEPT ![w].pc = "fast", ![w].stage = "concat",
                                ![w].concat_list_path = TRUE,
                                ![w].manifest_writes = @ + 1]
            /\ manifest' = Some([owner |-> pl[w].job_id,
                                 files |-> concat_list_files(pl[w].temp_files)])
    /\ UNCHANGED <<dreq, preq, req, hms, videos, video_parts, queue, tmp_dir, seg_files, outputs, json_files, pv>>

\* ffmpeg can read its input: the list is on disk and so is every file it names.
ConcatReadable ==
    /\ IsSome(manifest)
    /\ \A i \in 1..Len(Get(manifest).files) : IsSome(seg_files[Get(manifest).files[i]])

\* The file a concat run writes from what is on disk when it runs.
ConcatOutput(job_id, codec, fps, complete) ==
    [owner    |-> job_id,
     segments |-> [i \in 1..Len(Get(manifest).files) |->
                      Get(seg_files[Get(manifest).files[i]])],
     codec    |-> codec,
     fps      |-> fps,
     complete |-> complete]

\* One ffmpeg run as the pipeline sees and leaves it.
ConcatRun(codec, fps, rc) ==
    [list |-> "concat_list.txt", read |-> manifest, codec |-> codec, fps |-> fps,
     returncode |-> rc]

\* What a concat run can do: exit 0 with the output written, exit non-zero
\* with the output untouched, or exit non-zero with part of it written.
ConcatOutcomes == {"ok", "error", "partial"}

\* ffmpeg_overwrites as it is without "-y": an existing output is not replaced.
ffmpeg_overwrites_absent_only(existing) == existing = None

\* "-y": ffmpeg writes the output whether or not a file of that name exists.
ffmpeg_overwrites(existing) == TRUE

\* The run can do its work: it can read its input and may write its output.
CanConcat(w) ==
    /\ ConcatReadable
    /\ ffmpeg_overwrites(outputs[Get(pl[w].data).output_file_name])

OutputAfter(w, outcome, codec, fps) ==
    LET name == Get(pl[w].data).output_file_name
    IN IF CanConcat(w) /\ outcome # "error"
       THEN [outputs EXCEPT ![name] =
                Some(ConcatOutput(pl[w].job_id, codec, fps, outcome = "ok"))]
       ELSE outputs

ExitCode(w, outcome) == IF CanConcat(w) /\ outcome = "ok" THEN 0 ELSE 1

\* The fast path: ffmpeg -f concat -c copy.
pl_fast_concat(w) ==
    /\ pl[w].pc = "fast"
    /\ \E outcome \in ConcatOutcomes :
           LET rc == ExitCode(w, outcome)
           IN /\ outputs' = OutputAfter(w, outcome, "copy", 0)
              /\ pl' = [pl EXCEPT ![w].fast = Append(@, ConcatRun("copy", 0, rc)),
                                  ![w].tools = Append(@, outcome),
                                  ![w].pc = IF rc # 0 THEN "fallback" ELSE "finally",
                                  ![w].result = IF rc # 0 THEN @ ELSE "True"]
    /\ UNCHANGED <<dreq, preq, req, hms, videos, video_parts, queue, tmp_dir, seg_files, manifest, json_files, pv>>

\* fallback_fps with the default rate in place of the job's.
fallback_fps_default(target_fps) == DEFAULT_FPS

\* "-r", str(target_fps or 30)
fallback_fps(target_fps) == IF target_fps # 0 THEN target_fps ELSE DEFAULT_FPS

\* fallback_result without the "return False" of a failed fallback.
fallback_result_always_true(rc) == "True"

\* After the fallback: a non-zero exit returns False, otherwise True.
fallback_result(rc) == IF rc # 0 THEN "False" ELSE "True"

\* The fallback: the same list, re-encoded with libx264 at the target rate.
pl_fallback_concat(w) ==
    /\ pl[w].pc = "fallback"
    /\ \E outcome \in ConcatOutcomes :
           LET rc  == ExitCode(w, outcome)
               fps == fallback_fps(pl[w].target_fps)
           IN /\ outputs' = OutputAfter(w, outcome, "libx264", fps)
              /\ pl' = [pl EXCEPT ![w].fallback = Append(@, ConcatRun("libx264", fps, rc)),
                                  ![w].tools = Append(@, outcome),
                                  ![w].pc = "finally",
                                  ![w].result = fallback_result(rc)]
    /\ UNCHANGED <<dreq, preq, req, hms, videos, video_parts, queue, tmp_dir, seg_files, manifest, json_files, pv>>

\* An exception from the environment where the other actions have none:
\* open(concat_list_path, "w") raises OSError, or subprocess.run cannot start
\* ffmpeg for the fast path or for the fallback.
pl_tool_raises(w) ==
    /\ \/ /\ pl[w].pc = "loop"
          /\ pl[w].index = Len(Get(pl[w].data).inputs)
          /\ pl[w].temp_files # <<>>
       \/ pl[w].pc \in {"fast", "fallback"}
    /\ pl' = [pl EXCEPT ![w] =
                 Raised([@ EXCEPT !.concat_list_path = TRUE,
                                  !.tools = Append(@, "raises"),
                                  !.raised = Some(IF pl[w].pc = "loop" THEN "manifest"
                                                  ELSE "concat")])]
    /\ UNCHANGED <<dreq, preq, req, hms, videos, video_parts, queue, tmp_dir, seg_files,
                   manifest, outputs, json_files, pv>>

Registered(p) == {p.temp_files[i] : i \in 1..Len(p.temp_files)}

\* The segment files left once those in temp_files are removed.
segments_after_cleanup(p) ==
    [i \in SegmentIndexes |-> IF i \in Registered(p) THEN None ELSE seg_files[i]]

\* The files of the output folder and of the temporary folder, by name and
\* content (not by the job that wrote them).
FilesOnDisk(dir, segs, list, outs) ==
    [dir      |-> dir,
     segments |-> [i \in SegmentIndexes |->
                      IF IsSome(segs[i])
                      THEN Some([source   |-> Get(segs[i]).source,
                                 fps      |-> Get(segs[i]).fps,
                                 complete |-> Get(segs[i]).complete])
                      ELSE None],
     list     |-> IsSome(list),
     outputs  |-> [n \in OutputNames |->
                      IF IsSome(outs[n])
                      THEN Some([codec    |-> Get(outs[n]).codec,
                                 fps      |-> Get(outs[n]).fps,
                                 complete |-> Get(outs[n]).complete,
                                 sources  |-> [k \in 1..Len(Get(outs[n]).segments) |->
                                                  Get(outs[n]).segments[k].source]])
                      ELSE None]]

\* The finally clause: remove the files in temp_files, then the concat list
\* if its path was set, then the folder if it is empty.
pl_finally(w) ==
    /\ pl[w].pc = "finally"
    /\ seg_files' = segments_after_cleanup(pl[w])
    /\ manifest' = IF pl[w].concat_list_path THEN None ELSE manifest
    /\ tmp_dir' = IF /\ \A i \in SegmentIndexes : seg_files'[i] = None
                     /\ manifest' = None
                  THEN FALSE ELSE tmp_dir
    /\ pl' = [pl EXCEPT ![w].pc = "returned",
                        ![w].after = Some(FilesOnDisk(tmp_dir', seg_files', manifest',
                                                      outputs))]
    /\ UNCHANGED <<dreq, preq, req, hms, videos, video_parts, queue, outputs, json_files, pv>>

\* What a finished invocation is remembered by: its inputs, what the tools
\* did, what it returned and the files it left.
Summary(p) ==
    [data |-> p.data, tools |-> p.tools, result |-> p.result,
     after |-> Get(p.after)]

\* process_and_create_output is called a second time on the same object,
\* hence on the same processing data, once the first call has returned.
pl_run_again(w) ==
    /\ pl[w].pc = "returned"
    /\ IsSome(pl[w].after)
    /\ pl[w].prev = None
    /\ pl' = [pl EXCEPT ![w] = [PlIdle EXCEPT !.pc = "start",
                                              !.job_id = pl[w].job_id,
                                              !.data = pl[w].data,
                                              !.prev = Some(Summary(pl[w]))]]
    /\ UNCHANGED <<dreq, preq, req, hms, videos, video_parts, queue, tmp_dir, seg_files, manifest,
                   outputs, json_files, pv>>

(* ----------------------- process_video, the end ------------------------ *)

\* Probed durations of an output file, in tenths of a second.
ProbeDurations == {59, 900005}

\* ffprobe: a duration, or a failure (a non-zero exit, empty output).
ProbeOutcomes == {None} \cup {Some(d) : d \in ProbeDurations}

\* pipeline_failed as "created is False": None passes for success.
pipeline_failed_only_false(created) == created = "False"

\* "if not created": False and None both count as a failed pipeline.
pipeline_failed(created) == created # "True"

\* The exception the try block ends with, if any, given what the probe would say.
finish_exception(created, exists, probe) ==
    IF pipeline_failed(created) THEN Some(Reason("Video creation failed", <<>>))
    ELSE IF ~exists THEN Some(Reason("Output file was not created", <<>>))
    ELSE IF probe = None THEN Some(Reason("Unable to read output duration", <<>>))
    ELSE None

\* The update the run ends with: completed with the formatted duration, or
\* failed with str(exc).
finish_update(rec, exc, output_path, probe) ==
    IF IsSome(exc) THEN SetFailed(rec, Get(exc))
    ELSE SetCompleted(rec, output_path, format_hms(Get(probe)))

\* finish_return with True returned from the except clause too.
finish_return_always_true(exc) == "True"

\* return True after the completed update, return False in the except clause.
finish_return(exc) == IF IsSome(exc) THEN "False" ELSE "True"

\* remove_temp_json as an else clause: the file goes only when no exception
\* ended the try block.
remove_temp_json_on_success(files, job_id, exc) ==
    IF IsSome(exc) THEN files ELSE files \ {job_id}

\* The finally clause: os.remove(temp_json_path), whatever ended the try block.
remove_temp_json(files, job_id, exc) == files \ {job_id}

\* The pipeline has returned: check its result, that the output exists, probe
\* its duration; write completed or failed; remove the temporary JSON file.
pv_finish(w) ==
    /\ pv[w].pc = "pipeline"
    /\ pl[w].pc = "returned"
    /\ \E probe \in ProbeOutcomes :
           LET created == pl[w].result
               path    == Get(pv[w].output_name)
               failed  == pipeline_failed(created)
               exists  == ~failed /\ IsSome(outputs[path])
               probed  == IF exists THEN probe ELSE None
               exc     == finish_exception(created, exists, probed)
           IN /\ videos' = UpdateOne(pv[w].video_id,
                                     finish_update(Matched(pv[w].video_id), exc, path, probed))
              /\ json_files' = remove_temp_json(json_files, pv[w].job_id, exc)
              /\ pv' = [pv EXCEPT ![w].pc = "returned",
                                  ![w].created = created,
                                  ![w].exists_ok = exists,
                                  ![w].probed = probed,
                                  ![w].exc = exc,
                                  ![w].ret = finish_return(exc),
                                  ![w].wrote = Append(@,
                                      IF IsSome(exc) THEN WriteDoc("failed", exc, None)
                                      ELSE WriteDoc("completed", None,
                                                    Some(format_hms(Get(probed)))))]
    /\ UNCHANGED <<dreq, preq, req, hms, video_parts, queue, tmp_dir, seg_files, manifest, outputs, pl>>

(* ---------------------------- enqueue_video --------------------------- *)

\* What arq can do with the request: accept the job, return no job, or be
\* unreachable.
EnqueueOutcomes == {"job", "none", "redis_down"}

\* enq_enqueue_job with the status written before the queue has answered:
\* the record is set to queued whatever comes back.
enq_enqueue_job_marks_first(v) ==
    /\ req.pc = "idle"
    /\ req.enqueued < MaxJobs
    /\ IF videos[v] = None
       THEN /\ req' = [req EXCEPT !.response = 404]
            /\ queue' = queue
            /\ videos' = videos
       ELSE \E outcome \in EnqueueOutcomes :
                /\ videos' = UpdateOne(v, Enqueued(Matched(v), req.enqueued + 1))
                /\ IF outcome = "job"
                   THEN /\ queue' = Append(queue, [job_id   |-> req.enqueued + 1,
                                                   video_id |-> v])
                        /\ req' = [pc       |-> "update",
                                   video_id |-> v,
                                   job_id   |-> req.enqueued + 1,
                                   response |-> 0,
                                   enqueued |-> req.enqueued + 1]
                   ELSE /\ queue' = queue
                        /\ req' = [req EXCEPT !.response =
                                      IF outcome = "redis_down" THEN 503 ELSE 500]
    /\ UNCHANGED <<dreq, preq, hms, video_parts, tmp_dir, seg_files, manifest, outputs,
                   json_files, pv, pl>>

\* The request's first half: look the record up (404 when there is none),
\* connect to Redis (503 when that fails) and enqueue the job (500 when no job
\* comes back). Nothing in it looks at the record's status.
enq_enqueue_job(v) ==
    /\ req.pc = "idle"
    /\ req.enqueued < MaxJobs
    /\ IF videos[v] = None
       THEN /\ req' = [req EXCEPT !.response = 404]
            /\ queue' = queue
       ELSE \E outcome \in EnqueueOutcomes :
                IF outcome = "job"
                THEN /\ queue' = Append(queue, [job_id   |-> req.enqueued + 1,
                                                video_id |-> v])
                     /\ req' = [pc       |-> "update",
                                video_id |-> v,
                                job_id   |-> req.enqueued + 1,
                                response |-> 0,
                                enqueued |-> req.enqueued + 1]
                ELSE /\ queue' = queue
                     /\ req' = [req EXCEPT !.response =
                                   IF outcome = "redis_down" THEN 503 ELSE 500]
    /\ UNCHANGED <<dreq, preq, hms, videos, video_parts, tmp_dir, seg_files, manifest, outputs,
                   json_files, pv, pl>>

\* The request's second half, once the job is in the queue: status queued,
\* the job's id, error_reason None; 202 is returned.
enq_update_status ==
    /\ req.pc = "update"
    /\ videos' = UpdateOne(req.video_id, Enqueued(Matched(req.video_id), req.job_id))
    /\ req' = [req EXCEPT !.pc = "idle", !.response = 202]
    /\ UNCHANGED <<dreq, preq, hms, video_parts, queue, tmp_dir, seg_files, manifest, outputs,
                   json_files, pv, pl>>

(* ----------------------------- delete_video --------------------------- *)

\* The request's first statement: find_one_and_delete takes the record out
\* of the collection; 404 when there is none.
delete_video_find_one_and_delete(v) ==
    /\ dreq.pc = "idle"
    /\ IF videos[v] = None
       THEN /\ dreq' = [dreq EXCEPT !.response = 404]
            /\ videos' = videos
       ELSE /\ dreq' = [pc       |-> "remove",
                        video_id |-> v,
                        doc      |-> videos[v],
                        response |-> 0]
            /\ videos' = [videos EXCEPT ![v] = None]
    /\ UNCHANGED <<preq, req, hms, video_parts, queue, tmp_dir, seg_files, manifest,
                   outputs, json_files, pv, pl>>

\* The rest of the request: the record's parts are deleted and the file at
\* its output_file_location is unlinked if there is one. (The parts' source
\* files are unlinked too; a render that then cannot read its source is among
\* the outcomes of pl_render.)
delete_video_remove ==
    /\ dreq.pc = "remove"
    /\ video_parts' = [video_parts EXCEPT ![dreq.video_id] = <<>>]
    /\ outputs' = LET location == Get(dreq.doc).output_file_location
                  IN IF IsSome(location)
                     THEN [outputs EXCEPT ![Get(location)] = None]
                     ELSE outputs
    /\ dreq' = [DelIdle EXCEPT !.response = 200]
    /\ UNCHANGED <<preq, req, hms, videos, queue, tmp_dir, seg_files, manifest,
                   json_files, pv, pl>>

(* ------------------ create_video_part, update_video_part --------------- *)

\* _probe_duration_seconds raises for a path that does not exist.
probe_fails(file_location) == file_location \notin DOMAIN SourceDuration

\* _validate_times: the detail of the HTTPException it raises, if it does
\* (duration in tenths of a second; int(duration_seconds) truncates).
validate_times_error(start_time, end_time, duration) ==
    IF parse_hms_raises(start_time) \/ parse_hms_raises(end_time)
    THEN Some("Invalid time format")
    ELSE IF parse_hms(start_time) < 0
    THEN Some("start_time must be >= 00:00:00")
    ELSE IF parse_hms(end_time) > duration \div 10
    THEN Some("end_time exceeds file duration")
    ELSE IF parse_hms(end_time) <= parse_hms(start_time)
    THEN Some("end_time must be > start_time")
    ELSE None

\* The probe and the validation both handlers start with.
request_error(file_location, start_time, end_time) ==
    IF probe_fails(file_location) THEN Some("file_location not found")
    ELSE validate_times_error(start_time, end_time, SourceDuration[file_location])

\* POST /video-parts: probe the file, validate the times, insert the part.
create_video_part(c, v, file_location, start_time, end_time) ==
    /\ preq[c].pc = "idle"
    /\ Len(video_parts[v]) < MaxParts
    /\ IF IsSome(request_error(file_location, start_time, end_time))
       THEN /\ video_parts' = video_parts
            /\ preq' = [preq EXCEPT ![c].response = 400]
       ELSE /\ video_parts' = [video_parts EXCEPT ![v] =
                   Append(@, [file_location |-> file_location,
                              start_time    |-> start_time,
                              end_time      |-> end_time,
                              part_number   |-> Len(@) + 1])]
            /\ preq' = [preq EXCEPT ![c].response = 200]
    /\ UNCHANGED <<dreq, req, hms, videos, queue, tmp_dir, seg_files, manifest,
                   outputs, json_files, pv, pl>>

\* {**existing, **update}, and the document after {"$set": update}: a field
\* the payload sets replaces the stored one.
merged_part(existing, update) ==
    [existing EXCEPT
        !.file_location = IF IsSome(update.file_location)
                          THEN Get(update.file_location) ELSE @,
        !.start_time    = IF IsSome(update.start_time)
                          THEN Get(update.start_time) ELSE @,
        !.end_time      = IF IsSome(update.end_time)
                          THEN Get(update.end_time) ELSE @]

\* PATCH /video-parts/{id}, up to the validation: find the part (404 when
\* there is none), merge the payload into what was read, probe and validate
\* the merged view (400 when that fails).
update_video_part_validate(c, v, index, update) ==
    /\ preq[c].pc = "idle"
    /\ IF index \notin 1..Len(video_parts[v])
       THEN preq' = [preq EXCEPT ![c].response = 404]
       ELSE LET merged == merged_part(video_parts[v][index], update)
            IN IF IsSome(request_error(merged.file_location, merged.start_time,
                                       merged.end_time))
               THEN preq' = [preq EXCEPT ![c].response = 400]
               ELSE preq' = [preq EXCEPT ![c] =
                                [pc       |-> "set",
                                 video_id |-> v,
                                 index    |-> index,
                                 update   |-> update,
                                 response |-> 0]]
    /\ UNCHANGED <<dreq, req, hms, videos, video_parts, queue, tmp_dir, seg_files,
                   manifest, outputs, json_files, pv, pl>>

\* The rest of the PATCH: find_one_and_update sets the payload's fields on
\* the part as it is stored now.
update_video_part_set(c) ==
    /\ preq[c].pc = "set"
    /\ LET v     == preq[c].video_id
           index == preq[c].index
       IN video_parts' =
              IF index \in 1..Len(video_parts[v])
              THEN [video_parts EXCEPT ![v][index] = merged_part(@, preq[c].update)]
              ELSE video_parts
    /\ preq' = [preq EXCEPT ![c] = [PreqIdle[c] EXCEPT !.response = 200]]
    /\ UNCHANGED <<dreq, req, hms, videos, queue, tmp_dir, seg_files, manifest,
                   outputs, json_files, pv, pl>>

(* ----------------------- _parse_hms, _format_hms ----------------------- *)

\* _parse_hms is called on the text, or on what _format_hms returned: it
\* raises or gives whole seconds.
hms_parse ==
    /\ hms.pc \in {"parse", "parse_back"}
    /\ LET value == IF hms.pc = "parse" THEN hms.text ELSE Get(hms.formatted)
       IN hms' = IF parse_hms_raises(value)
                 THEN [hms EXCEPT !.pc = "done", !.raised = TRUE]
                 ELSE [hms EXCEPT !.parsed = Some(parse_hms(value)),
                                  !.pc = IF hms.pc = "parse" THEN "format_back"
                                         ELSE "done"]
    /\ UNCHANGED <<dreq, preq, videos, video_parts, queue, tmp_dir, seg_files, manifest, outputs,
                   json_files, pv, pl, req>>

\* _format_hms is called on the duration, or on what _parse_hms returned.
hms_format ==
    /\ hms.pc \in {"format", "format_back"}
    /\ LET tenths == IF hms.pc = "format" THEN hms.tenths ELSE 10 * Get(hms.parsed)
       IN hms' = [hms EXCEPT !.formatted = Some(format_hms(tenths)),
                             !.pc = IF hms.pc = "format" THEN "parse_back"
                                    ELSE "done"]
    /\ UNCHANGED <<dreq, preq, videos, video_parts, queue, tmp_dir, seg_files, manifest, outputs,
                   json_files, pv, pl, req>>

(* --------------------------- specifications ---------------------------- *)

Step(w) ==
    \/ pv_find_video(w)
    \/ pv_find_parts(w)
    \/ pv_validate(w)
    \/ pv_mark_processing(w)
    \/ pv_build_payload(w)
    \/ pv_write_config(w)
    \/ pl_start(w)
    \/ pl_render(w)
    \/ pl_write_manifest(w)
    \/ pl_fast_concat(w)
    \/ pl_fallback_concat(w)
    \/ pl_finally(w)
    \/ pv_finish(w)

\* One worker: the jobs run one after the other.
Next == Step(1)

Spec == Init /\ [][Next]_vars

\* Two workers, each taking one of two jobs for different records.
InitConc == InitWith({<<"v1", "v2">>})

NextConc == \E w \in Workers : Step(w)

SpecConc == InitConc /\ [][NextConc]_vars

\* One job, in which the pipeline may be called a second time on the same
\* data before process_video goes on.
InitTwice == InitWith({<<"v1">>})

NextTwice == Step(1) \/ pl_run_again(1)

SpecTwice == InitTwice /\ [][NextTwice]_vars

\* The API and one worker: both records start as created, nothing is queued,
\* and enqueue requests arrive while the worker runs.
InitApi ==
    /\ InitStore({<<>>}, StoredParts)
    /\ req = ReqIdle
    /\ dreq = DelIdle
    /\ preq = PreqIdle
    /\ hms = HmsIdle

NextApi ==
    \/ \E v \in VideoIds : enq_enqueue_job(v)
    \/ enq_update_status
    \/ Step(1)

SpecApi == InitApi /\ [][NextApi]_vars

\* The two conversions on their own: a time string is parsed and the result
\* formatted, or a duration is formatted and the result parsed.
InitHms ==
    /\ InitStore({<<>>}, {<<>>})
    /\ req = ReqIdle
    /\ dreq = DelIdle
    /\ preq = PreqIdle
    /\ \/ \E t \in HmsTexts :
              hms = [HmsIdle EXCEPT !.pc = "parse", !.kind = "text", !.text = t]
       \/ \E x \in HmsTenths :
              hms = [HmsIdle EXCEPT !.pc = "format", !.kind = "duration", !.tenths = x]

NextHms == hms_parse \/ hms_format

SpecHms == InitHms /\ [][NextHms]_vars

\* One worker and the API's delete_video: records may be deleted while
\* their jobs are queued or running.
DelParts ==
    {<<>>, <<PartOfKind("goodA", 1)>>,
     <<PartOfKind("goodA", 1), PartOfKind("goodB", 2)>>}

InitDel ==
    /\ InitStore(JobOrders, DelParts)
    /\ req = ReqIdle
    /\ dreq = DelIdle
    /\ preq = PreqIdle
    /\ hms = HmsIdle

NextDel ==
    \/ Step(1)
    \/ \E v \in VideoIds : delete_video_find_one_and_delete(v)
    \/ delete_video_remove

SpecDel == InitDel /\ [][NextDel]_vars

\* One worker, with the environment failing the pipeline's file and process
\* calls at any point.
InitExc ==
    /\ InitStore(JobOrders, DelParts \cup {<<PartOfKind("badPath", 1)>>})
    /\ req = ReqIdle
    /\ dreq = DelIdle
    /\ preq = PreqIdle
    /\ hms = HmsIdle

NextExc == Step(1) \/ pl_tool_raises(1)

SpecExc == InitExc /\ [][NextExc]_vars

\* The API's enqueue_video and one worker, as in SpecApi, over a few stored
\* part lists: none, one part, two parts.
InitEnq ==
    /\ InitStore({<<>>}, DelParts)
    /\ req = ReqIdle
    /\ dreq = DelIdle
    /\ preq = PreqIdle
    /\ hms = HmsIdle

NextEnq ==
    \/ \E v \in VideoIds : enq_enqueue_job(v)
    \/ enq_update_status
    \/ Step(1)

SpecEnq == InitEnq /\ [][NextEnq]_vars

\* The video-part endpoints, called by two clients side by side for the
\* first record, which starts with one valid part.
TimeTexts == {T000, T005, T009, TBad}

FileLocations == {"a.mp4", "b.mp4", "gone.mp4"}

PartUpdates ==
    {PartUpdate(f, s, e) :
        f \in {None} \cup {Some(x) : x \in FileLocations},
        s \in {None} \cup {Some(t) : t \in TimeTexts \ {TBad}},
        e \in {None} \cup {Some(t) : t \in TimeTexts \ {TBad}}}

InitParts ==
    /\ InitStore({<<>>}, {<<PartOfKind("goodA", 1)>>})
    /\ req = ReqIdle
    /\ dreq = DelIdle
    /\ preq = PreqIdle
    /\ hms = HmsIdle

NextParts ==
    \E c \in Clients :
        \/ \E f \in FileLocations, s \in TimeTexts, e \in TimeTexts :
               create_video_part(c, "v1", f, s, e)
        \/ \E index \in 1..MaxParts, update \in PartUpdates :
               update_video_part_validate(c, "v1", index, update)
        \/ update_video_part_set(c)

SpecParts == InitParts /\ [][NextParts]_vars

(* ------------------------------ claims --------------------------------- *)

Statuses(w) == {pv[w].wrote[i].status : i \in 1..Len(pv[w].wrote)}

Rec(v) == Get(videos[v])

\* C1: once process_and_create_output has returned, whatever the outcome, no
\* segment file and no concat list written by that invocation is on disk.
C1_NoTempFileRemains ==
    \A w \in Workers :
        pl[w].pc = "returned" =>
            /\ \A i \in SegmentIndexes :
                   IsSome(seg_files[i]) => Get(seg_files[i]).owner # pl[w].job_id
            /\ IsSome(manifest) => Get(manifest).owner # pl[w].job_id

\* C2: when one part fails to render and another part has rendered, the
\* pipeline still attempts every part and returns True.
C2_FailedPartIsSkipped ==
    \A w \in Workers :
        (/\ pl[w].pc = "returned"
         /\ IsSome(pl[w].failed)
         /\ pl[w].temp_files # <<>>)
        => /\ pl[w].result = "True"
           /\ Len(pl[w].attempts) = Len(Get(pl[w].data).inputs)

\* C3: a run of process_video that has set the record to processing and has
\* returned or raised has left the record completed or failed.
C3_NeverLeftProcessing ==
    \A w \in Workers :
        (pv[w].pc \in {"returned", "raised"} /\ "processing" \in Statuses(w))
        => Rec(pv[w].video_id).status \in {"completed", "failed"}

\* C4: every step that sets a record to completed is the end of a run whose
\* pipeline returned True, whose output file exists and whose probe gave a
\* duration; the record's video_size is format_hms of that duration.
C4_CompletedOnlyAfterProbe ==
    [][\A v \in VideoIds :
           (videos'[v] # videos[v] /\ Rec(v)'.status = "completed")
           => \E w \in Workers :
                  /\ pv[w].video_id = v
                  /\ pv[w].pc = "pipeline"
                  /\ pv'[w].pc = "returned"
                  /\ pl[w].job_id = pv[w].job_id
                  /\ pl[w].result = "True"
                  /\ IsSome(outputs[Get(pv[w].output_name)])
                  /\ IsSome(pv'[w].probed)
                  /\ Rec(v)'.video_size = Some(format_hms(Get(pv'[w].probed)))
                  /\ Rec(v)'.output_file_location = pv[w].output_name]_vars

\* A run ended with completed after a probe of 90000.5 seconds: 25:00:00.
C4_Witness ==
    \E w \in Workers :
        /\ pv[w].pc = "returned"
        /\ pv[w].ret = "True"
        /\ pv[w].probed = Some(900005)
        /\ Rec(pv[w].video_id).status = "completed"
        /\ Rec(pv[w].video_id).video_size =
               Some(<<"2", "5", ":", "0", "0", ":", "0", "0">>)

LacksField(part) ==
    part.file_location = "" \/ part.start_time = <<>> \/ part.end_time = <<>>

InvalidJob(v) ==
    \/ video_parts[v] = <<>>
    \/ \E i \in 1..Len(video_parts[v]) : LacksField(video_parts[v][i])

\* C6: a job whose record has no parts, or a part lacking a required field,
\* ends failed with a reason; the pipeline is never invoked for it, it is
\* never set to processing and no temporary or output file is its own.
C6_InvalidJobNeverReachesPipeline ==
    \A w \in Workers :
        (/\ pv[w].pc \notin {"idle", "find_parts", "validate"}
         /\ IsSome(pv[w].title)
         /\ InvalidJob(pv[w].video_id))
        => /\ pv[w].pc = "returned"
           /\ pv[w].ret = "False"
           /\ Rec(pv[w].video_id).status = "failed"
           /\ IsSome(Rec(pv[w].video_id).error_reason)
           /\ pv[w].invocations = 0
           /\ pl[w].pc = "idle"
           /\ "processing" \notin Statuses(w)
           /\ pv[w].job_id \notin json_files
           /\ \A i \in SegmentIndexes :
                  IsSome(seg_files[i]) => Get(seg_files[i]).owner # pv[w].job_id
           /\ IsSome(manifest) => Get(manifest).owner # pv[w].job_id
           /\ \A n \in OutputNames :
                  IsSome(outputs[n]) => Get(outputs[n]).owner # pv[w].job_id

\* A job with a part that has no file location has ended failed.
C6_Witness ==
    \E w \in Workers :
        /\ pv[w].pc = "returned"
        /\ \E i \in 1..Len(video_parts[pv[w].video_id]) :
               video_parts[pv[w].video_id][i].file_location = ""
        /\ Rec(pv[w].video_id).status = "failed"
        /\ Get(Rec(pv[w].video_id).error_reason).msg = "Invalid video parts"

\* The rate of the first source the invocation opened, 30 when it has none.
FirstSourceFps(w) ==
    LET first == Get(pl[w].data).inputs[1]
    IN IF SourceFps[first] = 0 THEN 30 ELSE SourceFps[first]

\* C7: when the fast concat exits non-zero the fallback runs exactly once, on
\* the same list, re-encoding at the job's target frame rate; when it exits
\* zero the pipeline returns True.
C7_FallbackAfterFastFailure ==
    \A w \in Workers :
        (/\ pl[w].pc \in {"finally", "returned"}
         /\ Len(pl[w].fast) = 1
         /\ pl[w].fast[1].returncode # 0)
        => /\ Len(pl[w].fallback) = 1
           /\ pl[w].fallback[1].list = pl[w].fast[1].list
           /\ pl[w].fallback[1].read = pl[w].fast[1].read
           /\ pl[w].fallback[1].codec = "libx264"
           /\ pl[w].fallback[1].fps = FirstSourceFps(w)
           /\ pl[w].fallback[1].returncode = 0 => pl[w].result = "True"

\* The fast path failed, the fallback succeeded at 24 frames per second.
C7_Witness ==
    \E w \in Workers :
        /\ pl[w].pc = "returned"
        /\ Len(pl[w].fast) = 1 /\ pl[w].fast[1].returncode # 0
        /\ Len(pl[w].fallback) = 1 /\ pl[w].fallback[1].returncode = 0
        /\ pl[w].fallback[1].fps = 24
        /\ pl[w].result = "True"

BothConcatsFailed(w) ==
    /\ Len(pl[w].fast) = 1 /\ pl[w].fast[1].returncode # 0
    /\ Len(pl[w].fallback) = 1 /\ pl[w].fallback[1].returncode # 0

C9_NoSegmentsLeavesNoTempDir ==
    \A w \in Workers :
        (pl[w].pc = "returned" /\ pl[w].data # None /\ pl[w].temp_files = <<>>)
        => /\ pl[w].result # "True"
           /\ pl[w].manifest_writes = 0
           /\ pl[w].fast = <<>>
           /\ pl[w].fallback = <<>>
           /\ ~tmp_dir

Running(w) == pl[w].pc \in {"loop", "fast", "fallback", "finally"}

\* C10: while two invocations for different records run, the segment files an
\* invocation has registered are on disk as it wrote them, and so is its
\* concat list: the other invocation has not overwritten or removed them.
C10_TempFilesNotShared ==
    \A w \in Workers :
        Running(w) =>
            /\ \A i \in Registered(pl[w]) :
                   IsSome(seg_files[i]) /\ Get(seg_files[i]).owner = pl[w].job_id
            /\ pl[w].pc \in {"fast", "fallback"} =>
                   IsSome(manifest) /\ Get(manifest).owner = pl[w].job_id

\* The jobs for a record that are waiting in the queue or being run.
InFlight(v) ==
    Cardinality({i \in 1..Len(queue) : queue[i].video_id = v})
    + Cardinality({w \in Workers :
                      /\ pv[w].video_id = v
                      /\ pv[w].pc \notin {"idle", "returned", "raised"}})

\* C11: at most one job per record is in flight: a record never has two jobs
\* waiting or running at once, enqueue_video refusing a record that is queued
\* or processing.
C11_AtMostOneJobInFlight ==
    \A v \in VideoIds : InFlight(v) <= 1

\* C13: every step that sets a record's status to processing finds it queued,
\* and every step that sets it to completed finds it processing.
C13_StatusHistory ==
    [][\A v \in VideoIds :
           (IsSome(videos[v]) /\ IsSome(videos'[v])
            /\ Rec(v)'.status # Rec(v).status)
           => /\ Rec(v)'.status = "processing" => Rec(v).status = "queued"
              /\ Rec(v)'.status = "completed" => Rec(v).status = "processing"]_vars

\* C12: a record whose status is failed has no output_file_location, or one
\* that names a file present in the output folder.
C12_FailedPointsAtNoMissingFile ==
    \A v \in VideoIds :
        (IsSome(videos[v]) /\ Rec(v).status = "failed")
        => \/ Rec(v).output_file_location = None
           \/ IsSome(outputs[Get(Rec(v).output_file_location)])

\* The place of the i-th stored part when the parts are put in ascending
\* part-number order.
RankByNumber(stored, i) ==
    1 + Cardinality({j \in 1..Len(stored) :
                        stored[j].part_number < stored[i].part_number})

\* The invocation's concat list is on disk.
ManifestOf(w) ==
    /\ pl[w].pc \in {"fast", "fallback", "finally"}
    /\ IsSome(manifest)
    /\ Get(manifest).owner = pl[w].job_id

\* C14: the concat list names each segment the invocation rendered exactly
\* once and no other file, and its k-th entry is the segment rendered from
\* the part that is k-th in ascending part-number order.
C14_ManifestInPartOrder ==
    \A w \in Workers :
        ManifestOf(w) =>
            LET files  == Get(manifest).files
                stored == video_parts[pv[w].video_id]
            IN /\ \A k, l \in 1..Len(files) : k # l => files[k] # files[l]
               /\ {files[k] : k \in 1..Len(files)} =
                      {i \in SegmentIndexes :
                          /\ IsSome(seg_files[i])
                          /\ Get(seg_files[i]).owner = pl[w].job_id
                          /\ Get(seg_files[i]).complete}
               /\ \A k \in 1..Len(files) :
                      \E i \in 1..Len(stored) :
                          /\ RankByNumber(stored, i) = k
                          /\ Get(seg_files[files[k]]).source = stored[i].file_location

\* A concat list of two segments for parts stored in descending part-number
\* order and cut from different source files.
C14_Witness ==
    \E w \in Workers :
        /\ ManifestOf(w)
        /\ Len(Get(manifest).files) = 2
        /\ LET stored == video_parts[pv[w].video_id]
           IN /\ Len(stored) = 2
              /\ stored[1].part_number > stored[2].part_number
              /\ stored[1].file_location # stored[2].file_location

\* C15: of jobs run one after the other and writing the same output name,
\* each lists in its concat list only segment files it wrote itself, and a
\* job whose pipeline returned True leaves an output file built from its own
\* segments only, one per input.
C15_OutputFromOwnSegmentsOnly ==
    \A w \in Workers :
        /\ ManifestOf(w) =>
               \A k \in 1..Len(Get(manifest).files) :
                   /\ IsSome(seg_files[Get(manifest).files[k]])
                   /\ Get(seg_files[Get(manifest).files[k]]).owner = pl[w].job_id
        /\ (pl[w].pc = "returned" /\ pl[w].result = "True") =>
               LET out == outputs[Get(pl[w].data).output_file_name]
               IN /\ IsSome(out)
                  /\ Get(out).owner = pl[w].job_id
                  /\ Get(out).complete
                  /\ Len(Get(out).segments) = Len(Get(pl[w].data).inputs)
                  /\ \A k \in 1..Len(Get(out).segments) :
                         Get(out).segments[k].owner = pl[w].job_id

\* The second job returned True and wrote the output while a segment file
\* left by the first job's failed render is still in the folder.
C15_Witness ==
    \E w \in Workers :
        /\ pl[w].pc = "returned"
        /\ pl[w].result = "True"
        /\ pl[w].job_id = 2
        /\ \E i \in SegmentIndexes :
               IsSome(seg_files[i]) /\ Get(seg_files[i]).owner = 1
        /\ Get(outputs[Get(pl[w].data).output_file_name]).owner = 2

\* The tools did the same in two invocations, call for call, as far as both
\* went.
SameToolResults(a, b) ==
    \A k \in 1..Len(a) : k <= Len(b) => a[k] = b[k]

\* A second call on the same inputs has returned, the tools having done the
\* same in both calls.
RanTwice(w) ==
    /\ pl[w].pc = "returned"
    /\ IsSome(pl[w].after)
    /\ IsSome(pl[w].prev)
    /\ Get(pl[w].prev).data = pl[w].data
    /\ SameToolResults(Get(pl[w].prev).tools, pl[w].tools)

\* C16: a second call of process_and_create_output on the same inputs, the
\* tools giving the same results, returns what the first call returned and
\* leaves the files the first call left.
C16_SecondRunChangesNothing ==
    \A w \in Workers :
        RanTwice(w) =>
            /\ pl[w].result = Get(pl[w].prev).result
            /\ pl[w].tools = Get(pl[w].prev).tools
            /\ Get(pl[w].after) = Get(pl[w].prev).after

\* Two calls in a row on the same inputs wrote the output file and returned
\* True.
C16_Witness ==
    \E w \in Workers :
        /\ RanTwice(w)
        /\ pl[w].result = "True"
        /\ Get(pl[w].prev).result = "True"
        /\ \E n \in OutputNames : IsSome(Get(pl[w].after).outputs[n])

\* The text has been through _parse_hms and, unless that raised, _format_hms.
TextConverted == hms.kind = "text" /\ hms.pc = "done"

\* C17: a zero-padded HH:MM:SS string with minutes and seconds below 60 is
\* parsed and formatted back to itself.
C17_FormatOfParse ==
    (TextConverted /\ hms.text \in PaddedTexts)
    => /\ ~hms.raised
       /\ hms.formatted = Some(hms.text)

\* "25:59:59" has been parsed and formatted back.
C17_Witness ==
    /\ TextConverted
    /\ hms.text = <<"2", "5", ":", "5", "9", ":", "5", "9">>
    /\ hms.parsed = Some(93599)
    /\ hms.formatted = Some(hms.text)

\* The duration has been through _format_hms and _parse_hms.
DurationConverted == hms.kind = "duration" /\ hms.pc = "done"

\* C18: a duration x >= 0 is formatted to a string that parses to floor(x);
\* each field of the string has at least two characters, and 90000.5 seconds
\* give 25:00:00.
C18_ParseOfFormat ==
    DurationConverted
    => /\ ~hms.raised
       /\ hms.parsed = Some(hms.tenths \div 10)
       /\ LET fields == SplitColon(Get(hms.formatted))
          IN Len(fields) = 3 /\ \A i \in 1..3 : Len(fields[i]) >= 2
       /\ hms.tenths = 900005 =>
              hms.formatted = Some(<<"2", "5", ":", "0", "0", ":", "0", "0">>)

\* 90000.5 seconds have been formatted and parsed back to 90000.
C18_Witness ==
    /\ DurationConverted
    /\ hms.tenths = 900005
    /\ hms.parsed = Some(90000)

\* What each of the other strings is: three integer fields within the ranges
\* (and then its seconds), or not.
OddExpected ==
    {
     [text |-> <<"2", "5", ":", "9", "9", ":", "0", "0">>,
      valid |-> FALSE, seconds |-> 0],
     [text |-> <<"1", ":", "2", ":", "3">>,
      valid |-> TRUE, seconds |-> 3723],
     [text |-> <<>>,
      valid |-> FALSE, seconds |-> 0],
     [text |-> <<"0", "0", ":", "0", "0">>,
      valid |-> FALSE, seconds |-> 0],
     [text |-> <<"0", "0", ":", "0", "0", ":", "0", "0", ":", "0", "0">>,
      valid |-> FALSE, seconds |-> 0],
     [text |-> <<":", ":">>,
      valid |-> FALSE, seconds |-> 0],
     [text |-> <<"0", "0", ":", "6", "0", ":", "0", "0">>,
      valid |-> FALSE, seconds |-> 0],
     [text |-> <<"0", "0", ":", "0", "0", ":", "6", "0">>,
      valid |-> FALSE, seconds |-> 0],
     [text |-> <<"-", "1", ":", "0", "0", ":", "0", "0">>,
      valid |-> FALSE, seconds |-> 0],
     [text |-> <<"0", "0", ":", "-", "1", ":", "0", "0">>,
      valid |-> FALSE, seconds |-> 0],
     [text |-> <<"1", ".", "5", ":", "0", "0", ":", "0", "0">>,
      valid |-> FALSE, seconds |-> 0],
     [text |-> <<"a", "a", ":", "0", "0", ":", "0", "0">>,
      valid |-> FALSE, seconds |-> 0],
     [text |-> <<"1", "0", "0", ":", "0", "0", ":", "0", "0">>,
      valid |-> TRUE, seconds |-> 360000],
     [text |-> <<"0", "0", "7", ":", "0", "0", ":", "0", "0">>,
      valid |-> TRUE, seconds |-> 25200],
     [text |-> <<" ", "1", ":", "0", "2", ":", "0", "3">>,
      valid |-> TRUE, seconds |-> 3723],
     [text |-> <<"+", "1", ":", "0", "2", ":", "0", "3">>,
      valid |-> TRUE, seconds |-> 3723],
     [text |-> <<"n", "o", "t", ":", "a", ":", "t", "i", "m", "e">>,
      valid |-> FALSE, seconds |-> 0]}

\* The same for the zero-padded strings, from the numbers they were written
\* from.
PaddedExpected ==
    {[text    |-> HmsText(h, m, sec),
      valid   |-> TRUE,
      seconds |-> h * 3600 + m * 60 + sec] :
        h \in HmsHours, m \in HmsMinutes, sec \in HmsMinutes}

Expected(text) ==
    CHOOSE e \in OddExpected \cup PaddedExpected : e.text = text

RejectedAsInvalid(w) ==
    \E i \in 1..Len(pv[w].wrote) :
        /\ pv[w].wrote[i].status = "failed"
        /\ Get(pv[w].wrote[i].error_reason).msg = "Invalid video parts"

\* C20: a run past the validation has rejected the parts as invalid exactly
\* when some part lacks its location, start time or end time; when every part
\* carries them and a part number, whatever the number, the record has been
\* set to processing.
C20_ZeroPartNumberIsValid ==
    \A w \in Workers :
        (/\ pv[w].pc \notin {"idle", "find_parts", "validate"}
         /\ IsSome(pv[w].title)
         /\ video_parts[pv[w].video_id] # <<>>)
        => LET stored == video_parts[pv[w].video_id]
               lacking == \E i \in 1..Len(stored) : LacksField(stored[i])
           IN /\ RejectedAsInvalid(w) <=> lacking
              /\ ~lacking => "processing" \in Statuses(w)

\* The run's pipeline call has returned without success and the run is over.
PipelineFailedRun(w) ==
    /\ pv[w].pc = "returned"
    /\ pv[w].invocations = 1
    /\ pl[w].pc = "returned"
    /\ pl[w].job_id = pv[w].job_id
    /\ pl[w].result # "True"

\* C21: when the pipeline fails a job, the record's error_reason names the
\* pipeline's cause: no clip generated when no segment was rendered, the
\* concat failure when both concat runs failed.
C21_ReasonNamesTheCause ==
    \A w \in Workers :
        PipelineFailedRun(w) =>
            LET msg == Get(Rec(pv[w].video_id).error_reason).msg
            IN /\ pl[w].temp_files = <<>> =>
                      msg = "No clips were generated from the inputs."
               /\ BothConcatsFailed(w) => msg = "ffmpeg concat failed"

\* A worker is between the processing write and the end of its run for v.
Executing(w, v) ==
    /\ pv[w].video_id = v
    /\ pv[w].pc \in {"build_payload", "write_config", "pipeline"}

\* C22: a record whose status is processing carries in job_id the id of the
\* job a worker is executing for it.
C22_ProcessingCarriesJobId ==
    \A v \in VideoIds :
        (IsSome(videos[v]) /\ Rec(v).status = "processing")
        => \E w \in Workers :
               Executing(w, v) /\ Rec(v).job_id = Some(pv[w].job_id)

\* C23: two runs for different records never have the same output path.
C23_DistinctOutputPaths ==
    \A w1, w2 \in Workers :
        (/\ w1 # w2
         /\ IsSome(pv[w1].output_name)
         /\ IsSome(pv[w2].output_name)
         /\ pv[w1].video_id # pv[w2].video_id)
        => pv[w1].output_name # pv[w2].output_name

\* C24: when the pipeline has returned, every clip it opened is closed.
C24_ClipsClosedOnReturn ==
    \A w \in Workers :
        pl[w].pc = "returned" => pl[w].open_clips = {}

\* The segment files the invocation of w wrote, whole or in part.
SegmentsWritten(w) ==
    {i \in SegmentIndexes :
        IsSome(seg_files[i]) /\ Get(seg_files[i]).owner = pl[w].job_id}

\* C25: in one invocation the target frame rate, once set, is the rate of the
\* first source opened (30 when it reports none); every segment is encoded
\* at it and the fallback concat re-encodes at it.
C25_OneTargetFrameRate ==
    \A w \in Workers :
        pl[w].data # None =>
            /\ pl[w].target_fps # 0 => pl[w].target_fps = FirstSourceFps(w)
            /\ \A i \in SegmentsWritten(w) :
                   /\ pl[w].target_fps # 0
                   /\ Get(seg_files[i]).fps = pl[w].target_fps
            /\ Len(pl[w].fallback) = 1 =>
                   /\ pl[w].target_fps # 0
                   /\ pl[w].fallback[1].fps = pl[w].target_fps

\* Two segments of sources with different native rates, both at the rate of
\* the first, and the fallback run at that rate.
C25_Witness ==
    \E w \in Workers :
        /\ pl[w].pc = "finally"
        /\ Len(pl[w].fallback) = 1
        /\ pl[w].fallback[1].fps = 24
        /\ \E i, j \in SegmentsWritten(w) :
               /\ SourceFps[Get(seg_files[i]).source] = 24
               /\ SourceFps[Get(seg_files[j]).source] = 0
               /\ Get(seg_files[i]).fps = 24
               /\ Get(seg_files[j]).fps = 24

\* The loop over the inputs has ended without an exception and the segment
\* files have not been removed yet.
LoopCompleted(w) ==
    /\ pl[w].data # None
    /\ pl[w].pc \in {"fast", "fallback", "finally"}
    /\ pl[w].failed = None
    /\ pl[w].job_id = pv[w].job_id

C27_RetryFree ==
    [][/\ Len(queue') <= Len(queue)
       /\ \A w \in Workers :
              /\ \A i, j \in 1..Len(pl'[w].attempts) :
                     pl'[w].attempts[i] = pl'[w].attempts[j] => i = j
              /\ Len(pl'[w].fast) <= 1
              /\ Len(pl'[w].fallback) <= 1
              /\ pv'[w].invocations <= 1]_vars

\* A job ended failed after a render for each of two inputs and one failing
\* run of each concat path.
C27_Witness ==
    \E w \in Workers :
        /\ pv[w].pc = "returned"
        /\ pv[w].invocations = 1
        /\ pl[w].pc = "returned"
        /\ Len(pl[w].attempts) = 2
        /\ BothConcatsFailed(w)
        /\ Rec(pv[w].video_id).status = "failed"

\* A worker's pipeline call is under way.
InPipeline(w) == pl[w].pc \in {"start", "loop", "fast", "fallback", "finally"}

FoundNoRecord(w) ==
    /\ pv[w].job_id # 0
    /\ pv[w].pc = "returned"
    /\ pv[w].title = None

\* C29: a job whose identifier has no record returns False without calling
\* the pipeline, writes no record and leaves no file of its own.
C29_MissingRecordFailsQuietly ==
    \A w \in Workers :
        FoundNoRecord(w) =>
            /\ pv[w].ret = "False"
            /\ pv[w].invocations = 0
            /\ pv[w].wrote = <<>>
            /\ pl[w] = PlIdle
            /\ videos[pv[w].video_id] = None
            /\ pv[w].job_id \notin json_files
            /\ \A i \in SegmentIndexes :
                   IsSome(seg_files[i]) => Get(seg_files[i]).owner # pv[w].job_id
            /\ \A n \in OutputNames :
                   IsSome(outputs[n]) => Get(outputs[n]).owner # pv[w].job_id

\* A record was deleted while its job was queued, and the job has run.
C29_Witness ==
    \E w \in Workers :
        /\ FoundNoRecord(w)
        /\ pv[w].ret = "False"
        /\ dreq.response = 200
        /\ videos[pv[w].video_id] = None
        /\ queue = <<>>

\* The times of a stored part satisfy 0 <= start < end <= the duration of
\* its file in whole seconds.
TimesInRange(part) ==
    /\ part.file_location \in DOMAIN SourceDuration
    /\ ~parse_hms_raises(part.start_time)
    /\ ~parse_hms_raises(part.end_time)
    /\ 0 <= parse_hms(part.start_time)
    /\ parse_hms(part.start_time) < parse_hms(part.end_time)
    /\ parse_hms(part.end_time) <= SourceDuration[part.file_location] \div 10

\* C30: every part that create_video_part or update_video_part has stored
\* has its times in range.
C30_StoredTimesInRange ==
    \A v \in VideoIds :
        \A i \in 1..Len(video_parts[v]) : TimesInRange(video_parts[v][i])

\* The run of w created its job-config file and has left process_video.
LeftAfterConfig(w) ==
    /\ pv[w].pc \in {"returned", "raised"}
    /\ pv[w].invocations = 1

\* C31: once a run that created its temporary job-config file has left
\* process_video, the file is gone: after success, a failed pipeline, a
\* missing output file and a failed probe alike.
C31_TempConfigRemoved ==
    \A w \in Workers :
        LeftAfterConfig(w) => pv[w].job_id \notin json_files

\* A run ended on "Output file was not created" (the output was unlinked by
\* delete_video after the pipeline wrote it) and its config file is gone.
C31_Witness ==
    \E w \in Workers :
        /\ LeftAfterConfig(w)
        /\ pv[w].created = "True"
        /\ ~pv[w].exists_ok
        /\ IsSome(pv[w].exc)
        /\ Get(pv[w].exc).msg = "Output file was not created"
        /\ pv[w].job_id \notin json_files

\* No request is under way, no job is waiting and no worker is in a run:
\* every job that was enqueued has been processed.
Quiescent ==
    /\ req.pc = "idle"
    /\ queue = <<>>
    /\ \A w \in Workers : pv[w].pc \in {"idle", "returned", "raised"}

\* C32: once an enqueue_video call and the run it triggered have both
\* finished, the record is completed or failed (a record never enqueued is
\* still created); it is not left queued.
C32_NotLeftQueued ==
    Quiescent =>
        \A v \in VideoIds :
            IsSome(videos[v]) => Rec(v).status \in {"created", "completed", "failed"}

\* C33: a record's status is one of the five, and it has an error_reason
\* exactly when its status is failed.
C33_StatusAndReason ==
    \A v \in VideoIds :
        IsSome(videos[v]) =>
            /\ Rec(v).status \in {"created", "queued", "processing", "completed", "failed"}
            /\ Rec(v).status = "failed" <=> Rec(v).error_reason # None

\* One record is failed with a reason while the other is processing for the
\* second job with none.
C33_Witness ==
    \E v1, v2 \in VideoIds, w \in Workers :
        /\ IsSome(videos[v1]) /\ IsSome(videos[v2])
        /\ Rec(v1).status = "failed" /\ Rec(v1).error_reason # None
        /\ pv[w].video_id = v2 /\ pv[w].job_id = 2
        /\ Rec(v2).status = "processing" /\ Rec(v2).error_reason = None

\* The run of w has issued an update that sets status completed.
WroteCompleted(w) ==
    \E i \in 1..Len(pv[w].wrote) : pv[w].wrote[i].status = "completed"

\* C34: a run returns True exactly when it wrote status completed; a run
\* that returned False, and a run still under way, has not written it.
C34_TrueIffCompleted ==
    \A w \in Workers :
        /\ pv[w].ret = "True" <=> WroteCompleted(w)
        /\ pv[w].ret = "False" => ~WroteCompleted(w)
        /\ (pv[w].ret = "True" /\ pv[w].pc = "returned") =>
               Rec(pv[w].video_id).status = "completed"

\* A run has returned True and its record is completed with its size.
C34_Witness ==
    \E w \in Workers :
        /\ pv[w].pc = "returned"
        /\ pv[w].ret = "True"
        /\ WroteCompleted(w)
        /\ Rec(pv[w].video_id).status = "completed"
        /\ IsSome(Rec(pv[w].video_id).video_size)

\* C35: no exception leaves process_and_create_output. An exception raised
\* inside it (opening or encoding a clip, writing the concat list, running a
\* concat path) ends the call, after the finally clause, with the return
\* value None; every call returns True, False or None; and process_video
\* ends a run whose call returned None as a pipeline failure.
C35_NoExceptionEscapes ==
    \A w \in Workers :
        /\ pl[w].raised # None =>
               /\ pl[w].pc \in {"finally", "returned"}
               /\ pl[w].result = "None"
        /\ pl[w].pc = "returned" => pl[w].result \in {"True", "False", "None"}
        /\ (/\ pl[w].raised # None
            /\ pv[w].pc = "returned"
            /\ pv[w].job_id = pl[w].job_id) =>
               /\ pv[w].created = "None"
               /\ pv[w].ret = "False"
               /\ Get(pv[w].exc).msg = "Video creation failed"
               /\ Rec(pv[w].video_id).status = "failed"

\* ffmpeg could not be started for the fallback after a failed fast path,
\* and the run has ended failed.
C35_Witness ==
    \E w \in Workers :
        /\ pl[w].raised = Some("concat")
        /\ Len(pl[w].fast) = 1
        /\ pl[w].fallback = <<>>
        /\ pl[w].pc = "returned"
        /\ pv[w].pc = "returned"
        /\ pv[w].created = "None"
        /\ Rec(pv[w].video_id).status = "failed"

\* C36: a record that is gone stays gone: no step of process_video (nor of
\* delete_video) puts a record back under an identifier that has none.
C36_DeletedStaysDeleted ==
    [][\A v \in VideoIds : videos[v] = None => videos'[v] = None]_vars

\* delete_video took the record while its job was processing; the run then
\* issued its last status write and returned, and there is no record.
C36_Witness ==
    \E w \in Workers :
        /\ dreq.pc = "remove"
        /\ dreq.video_id = pv[w].video_id
        /\ Get(dreq.doc).status = "processing"
        /\ pv[w].pc = "returned"
        /\ Len(pv[w].wrote) = 2
        /\ videos[pv[w].video_id] = None

\* C37: a request that ends with 503 (the queue cannot be reached) or 500
\* (no job came back) changes no record and adds no job; and a record is
\* written as queued only by the second half of a request whose job is in
\* the queue's count, with that job's id.
C37_QueuedOnlyAfterEnqueue ==
    [][/\ (req' # req /\ req'.response \in {500, 503}) =>
              /\ videos' = videos
              /\ queue' = queue
              /\ req'.enqueued = req.enqueued
       /\ \A v \in VideoIds :
              (/\ IsSome(videos'[v])
               /\ videos'[v] # videos[v]
               /\ Get(videos'[v]).status = "queued") =>
                  /\ req.pc = "update"
                  /\ req.video_id = v
                  /\ req.job_id \in 1..req.enqueued
                  /\ Get(videos'[v]).job_id = Some(req.job_id)
                  /\ req'.response = 202]_vars

\* The last request failed on the queue after an earlier one had enqueued a
\* job, and a record that this job left failed still has its reason.
C37_Witness ==
    \E v \in VideoIds :
        /\ req.pc = "idle"
        /\ req.response \in {500, 503}
        /\ req.enqueued = 1
        /\ queue = <<>>
        /\ IsSome(videos[v])
        /\ Rec(v).status = "failed"
        /\ Rec(v).error_reason # None
        /\ Rec(v).job_id = Some(1)

====
